---- MODULE Spec2Model ----
(***************************************************************************)
(* Model of skill-evolution's update applier (scripts/apply-update.py):    *)
(* the proposal store, the skill documents, the backup snapshots and the   *)
(* audit log, driven by the command-line entry points of main(); and of    *)
(* the opportunity analyzer (scripts/analyze-opportunities.py): the        *)
(* detectors, the proposal factory and the analysis run that stores the    *)
(* proposals and the report.                                               *)
(*                                                                         *)
(* A document is a sequence of lines.  A line is a 4-tuple                 *)
(* <<kind, a, b, c>>: kind names what the line is and a, b, c carry its    *)
(* numbers (a version's three parts, a date, a text's number).  Substring  *)
(* search and replacement work on whole lines.                             *)
(***************************************************************************)
EXTENDS Integers, Sequences, FiniteSets, TLC

VARIABLES
    docs,       \* SKILLS_DIR/<skill>/SKILL.md : skill -> document (domain = the files that exist)
    backups,    \* BACKUPS_DIR : snapshot path -> document (domain = the files that exist)
    proposals,  \* PENDING_DIR/<id>.yaml : proposal id -> record (domain = the files that exist)
    log,        \* LOGS_DIR/<day>.jsonl : the audit events, in append order
    now,        \* the wall clock, in seconds
    nops,       \* number of command-line invocations so far
    result,     \* what the last invocation reported, and the documents it started from
    pre,        \* history: proposal id -> the document its storing apply started from
    reports,    \* REPORTS_DIR : the saved analysis reports, in the order written
    input,      \* the arguments of the function a specification exercises
    output,     \* what that function returned
    procs       \* the apply calls in progress: call -> its position and local variables

vars == <<docs, backups, proposals, log, now, nops, result, pre, reports, input, output, procs>>

----------------------------------------------------------------------------
\* Bounds of the model.
MaxOps == 3
MaxClock == 2
MaxFaultyOps == 2
SecondsPerDay == 2

----------------------------------------------------------------------------
\* Lines of a document.
VersionLine(v) == <<"version", v[1], v[2], v[3]>>
UpdatedLine(d) == <<"updated", d, 0, 0>>
Delim == <<"---", 0, 0, 0>>
ChangelogHeader == <<"## Changelog", 0, 0, 0>>
ChangelogVersion(v) == <<"### v", v[1], v[2], v[3]>>
ChangelogItem(title, d) == <<"- ", title, d, 0>>
Text(n) == <<"text", n, 0, 0>>

\* None for a path and for a timestamp.
NoPath == <<>>
NoTime == 0

\* A file system directory as a function from names to contents.
WriteFile(dir, name, content) ==
    [x \in (DOMAIN dir) \cup {name} |-> IF x = name THEN content ELSE dir[x]]

\* what a file holds; the empty text stands in for a file that is not there
ReadFile(dir, name) == IF name \in DOMAIN dir THEN dir[name] ELSE <<>>

\* before in content
Contains(content, part) ==
    \E i \in 1..(Len(content) - Len(part) + 1) :
        SubSeq(content, i, i + Len(part) - 1) = part

\* content.replace(before, after): every non-overlapping occurrence, left to right
RECURSIVE Replace(_, _, _)
Replace(content, part, by) ==
    IF Len(content) < Len(part) \/ Len(part) = 0 THEN content
    ELSE IF SubSeq(content, 1, Len(part)) = part
         THEN by \o Replace(SubSeq(content, Len(part) + 1, Len(content)), part, by)
         ELSE <<Head(content)>> \o Replace(Tail(content), part, by)

\* datetime.now().strftime("%Y-%m-%d")
Today(t) == t \div SecondsPerDay

\* datetime.now().strftime("%Y%m%d%H%M%S") and get_timestamp(): the second
Timestamp(t) == t

SetMin(S) == CHOOSE x \in S : \A y \in S : x <= y

----------------------------------------------------------------------------
\* Version management.

VersionLines(content) == {i \in 1..Len(content) : content[i][1] = "version"}

get_skill_version(d, skill) ==
    IF skill \notin DOMAIN d THEN <<0, 0, 0>>
    ELSE LET c == d[skill]
             idx == VersionLines(c)
         IN  IF idx = {} THEN <<1, 0, 0>>
             ELSE <<c[SetMin(idx)][2], c[SetMin(idx)][3], c[SetMin(idx)][4]>>

\* increment_version with the minor tier's "minor += 1" left out
increment_version_minor_slip(v, level) ==
    CASE level = "patch" -> <<v[1], v[2], v[3] + 1>>
      [] level = "minor" -> <<v[1], v[2], 0>>
      [] level = "major" -> <<v[1] + 1, 0, 0>>
      [] OTHER -> v

increment_version(v, level) ==
    CASE level = "patch" -> <<v[1], v[2], v[3] + 1>>
      [] level = "minor" -> <<v[1], v[2] + 1, 0>>
      [] level = "major" -> <<v[1] + 1, 0, 0>>
      [] OTHER -> v

\* v < w in semantic-version order
VersionLess(v, w) ==
    \/ v[1] < w[1]
    \/ v[1] = w[1] /\ v[2] < w[2]
    \/ v[1] = w[1] /\ v[2] = w[2] /\ v[3] < w[3]

\* the changelog entry's lines, inserted below every "## Changelog" header
RECURSIVE InsertChangelog(_, _)
InsertChangelog(content, entry) ==
    IF content = <<>> THEN <<>>
    ELSE IF Head(content) = ChangelogHeader
         THEN <<ChangelogHeader>> \o entry \o InsertChangelog(Tail(content), entry)
         ELSE <<Head(content)>> \o InsertChangelog(Tail(content), entry)

\* update_skill_version's new content
RewriteVersion(content, new_version, title, t) ==
    LET c1 == [i \in 1..Len(content) |->
                  IF content[i][1] = "version" THEN VersionLine(new_version)
                  ELSE IF content[i][1] = "updated" THEN UpdatedLine(Today(t))
                  ELSE content[i]]
    IN  InsertChangelog(c1, <<ChangelogVersion(new_version), ChangelogItem(title, Today(t))>>)

update_skill_version(d, skill, new_version, title, t) ==
    IF skill \notin DOMAIN d THEN d
    ELSE WriteFile(d, skill, RewriteVersion(d[skill], new_version, title, t))

----------------------------------------------------------------------------
\* Backup and restore.

BackupPath(skill, v, suffix) == <<skill, v[1], v[2], v[3], suffix>>

\* the path backup_skill writes to
BackupTarget(b, skill, v, t) ==
    IF BackupPath(skill, v, NoTime) \in DOMAIN b
    THEN BackupPath(skill, v, Timestamp(t))
    ELSE BackupPath(skill, v, NoTime)

\* backup_skill without the check that the document exists
backup_skill_unchecked(d, b, skill, v, t) ==
    [raised |-> FALSE,
     path |-> BackupTarget(b, skill, v, t),
     backups |-> WriteFile(b, BackupTarget(b, skill, v, t), ReadFile(d, skill))]

\* backup_skill: raised when the document is absent, else the path and the new directory
backup_skill(d, b, skill, v, t) ==
    IF skill \notin DOMAIN d
    THEN [raised |-> TRUE, path |-> NoPath, backups |-> b]
    ELSE [raised |-> FALSE,
          path |-> BackupTarget(b, skill, v, t),
          backups |-> WriteFile(b, BackupTarget(b, skill, v, t), d[skill])]

\* restore_skill copying the document over the snapshot instead of the snapshot over it
restore_skill_reversed(d, b, skill, path) == d

\* restore_skill: the documents after the copy (the caller has checked the snapshot exists)
restore_skill(d, b, skill, path) ==
    IF path \notin DOMAIN b THEN d ELSE WriteFile(d, skill, b[path])

----------------------------------------------------------------------------
\* Change operations.  A change is a record
\* [type, section, before, after, add]; an absent key is the empty text <<>>
\* (section: the empty string).  iofail: reading or writing the document
\* raises inside the operation, which the operation catches.

\* apply_edit_change taking an edit that carries only an add text as an append
apply_edit_change_adding(content, change, iofail) ==
    IF change.before = <<>> \/ change.after = <<>>
    THEN IF change.add = <<>> \/ iofail THEN [ok |-> FALSE, content |-> content]
         ELSE [ok |-> TRUE, content |-> content \o change.add]
    ELSE IF iofail THEN [ok |-> FALSE, content |-> content]
    ELSE IF ~Contains(content, change.before)
    THEN [ok |-> FALSE, content |-> content]
    ELSE [ok |-> TRUE, content |-> Replace(content, change.before, change.after)]

\* apply_edit_change writing the file before it has looked for the before text
apply_edit_change_writes_on_miss(content, change, iofail) ==
    IF change.before = <<>> \/ change.after = <<>>
    THEN [ok |-> FALSE, content |-> content]
    ELSE IF iofail THEN [ok |-> FALSE, content |-> content]
    ELSE IF ~Contains(content, change.before)
    THEN [ok |-> FALSE, content |-> content \o change.after]
    ELSE [ok |-> TRUE, content |-> Replace(content, change.before, change.after)]

apply_edit_change(content, change, iofail) ==
    IF change.before = <<>> \/ change.after = <<>>
    THEN [ok |-> FALSE, content |-> content]
    ELSE IF iofail THEN [ok |-> FALSE, content |-> content]
    ELSE IF ~Contains(content, change.before)
    THEN [ok |-> FALSE, content |-> content]
    ELSE [ok |-> TRUE, content |-> Replace(content, change.before, change.after)]

\* the closing delimiters r'^---\n(.*?)\n---' can match up to
FrontmatterEnds(content) ==
    IF Len(content) >= 3 /\ content[1] = Delim
    THEN {j \in 3..Len(content) : content[j] = Delim}
    ELSE {}

apply_add_change(content, change, iofail) ==
    IF change.add = <<>> THEN [ok |-> FALSE, content |-> content]
    ELSE IF iofail THEN [ok |-> FALSE, content |-> content]
    ELSE IF change.section = "frontmatter"
    THEN IF FrontmatterEnds(content) = {}
         THEN [ok |-> FALSE, content |-> content]
         ELSE LET j == SetMin(FrontmatterEnds(content))
                  matched == SubSeq(content, 1, j)
                  frontmatter == SubSeq(content, 2, j - 1)
              IN  [ok |-> TRUE,
                   content |-> Replace(content, matched,
                                   <<Delim>> \o frontmatter \o change.add \o <<Delim>>)]
    ELSE IF change.after # <<>>
    THEN IF ~Contains(content, change.after)
         THEN [ok |-> FALSE, content |-> content]
         ELSE [ok |-> TRUE,
               content |-> Replace(content, change.after, change.after \o change.add)]
    ELSE IF change.before # <<>>
    THEN IF ~Contains(content, change.before)
         THEN [ok |-> FALSE, content |-> content]
         ELSE [ok |-> TRUE,
               content |-> Replace(content, change.before, change.add \o change.before)]
    ELSE [ok |-> TRUE, content |-> content \o change.add]

\* one pass of apply_proposal's loop over the changes
ApplyChange(content, change, iofail) ==
    CASE change.type = "edit" ->
            LET r == apply_edit_change(content, change, iofail)
            IN  [content |-> r.content, outcome |-> IF r.ok THEN "ok" ELSE "failed"]
      [] change.type = "add" ->
            LET r == apply_add_change(content, change, iofail)
            IN  [content |-> r.content, outcome |-> IF r.ok THEN "ok" ELSE "failed"]
      [] change.type = "review" -> [content |-> content, outcome |-> "review"]
      [] OTHER -> [content |-> content, outcome |-> "ignored"]

\* apply_proposal's loop leaving at the first change that reports a failure
RECURSIVE ApplyChanges_until_failure(_, _, _)
ApplyChanges_until_failure(content, changes, iofail) ==
    IF changes = <<>> THEN [content |-> content, outcomes |-> <<>>]
    ELSE LET r == ApplyChange(content, Head(changes), iofail)
             rest == IF r.outcome = "failed" THEN [content |-> r.content, outcomes |-> <<>>]
                     ELSE ApplyChanges_until_failure(r.content, Tail(changes), iofail)
         IN  [content |-> rest.content, outcomes |-> <<r.outcome>> \o rest.outcomes]

\* apply_proposal's loop: the document after the changes and what each reported
RECURSIVE ApplyChanges(_, _, _)
ApplyChanges(content, changes, iofail) ==
    IF changes = <<>> THEN [content |-> content, outcomes |-> <<>>]
    ELSE LET r == ApplyChange(content, Head(changes), iofail)
             rest == ApplyChanges(r.content, Tail(changes), iofail)
         IN  [content |-> rest.content, outcomes |-> <<r.outcome>> \o rest.outcomes]

----------------------------------------------------------------------------
\* The proposal store and the audit log.

load_proposal(store, id) == IF id \in DOMAIN store THEN <<store[id]>> ELSE <<>>

\* save_proposal keeping the whole store in one file that each save rewrites
save_proposal_single_file(store, id, proposal) == WriteFile(<<>>, id, proposal)

save_proposal(store, id, proposal) == WriteFile(store, id, proposal)

\* the ids list_pending_proposals returns
list_pending_proposals(store) == {id \in DOMAIN store : store[id].status = "pending"}

\* log_evolution opening the day's file for writing instead of for appending
log_evolution_rewriting(events, skill, old_version, new_version, level, title, t) ==
    <<[timestamp |-> Timestamp(t),
       action |-> "evolution_applied",
       skill |-> skill,
       version_before |-> old_version,
       version_after |-> new_version,
       change_level |-> level,
       description |-> title]>>

log_evolution(events, skill, old_version, new_version, level, title, t) ==
    Append(events, [timestamp |-> Timestamp(t),
                    action |-> "evolution_applied",
                    skill |-> skill,
                    version_before |-> old_version,
                    version_after |-> new_version,
                    change_level |-> level,
                    description |-> title])

----------------------------------------------------------------------------
\* apply_proposal.  w is the files: [docs, backups, proposals, log], and pre, a
\* history of the document each proposal's storing apply started from.
\* fault names the step whose file access raises: "none", "op" (inside the
\* change operations), "version" (update_skill_version), "save"
\* (save_proposal) or "log" (log_evolution).

Faults == {"none", "op", "version", "save", "log"}

Outcome(id, ok, dry, fault, ops, before, after) ==
    [id |-> id, ok |-> ok, dry |-> dry, fault |-> fault, ops |-> ops,
     version_before |-> before, version_after |-> after]

\* proposal['skill_id'], ChangeLevel(proposal['change_level']) and
\* proposal['title'] are evaluated before the try and before the dry-run return:
\* a record without one of them, or with an unknown level, raises out of the call
Malformed(proposal) ==
    \/ ~({"skill_id", "change_level", "title"} \subseteq DOMAIN proposal)
    \/ proposal.change_level \notin {"patch", "minor", "major"}

apply_proposal(w, id, proposal, dry, fault, t) ==
    LET skill == proposal.skill_id
        level == proposal.change_level
        current_version == get_skill_version(w.docs, skill)
        bk == backup_skill(w.docs, w.backups, skill, current_version, t)
        new_version == increment_version(current_version, level)
        \* inside a change operation, opening an absent document raises like any fault
        changed == ApplyChanges(ReadFile(w.docs, skill), proposal.changes,
                                fault = "op" \/ skill \notin DOMAIN w.docs)
        docs4 == IF skill \in DOMAIN w.docs THEN WriteFile(w.docs, skill, changed.content)
                 ELSE w.docs
        docs5 == update_skill_version(docs4, skill, new_version, proposal.title, t)
        stored == [proposal EXCEPT !.status = "applied",
                                   !.applied_at = Timestamp(t),
                                   !.backup_path = bk.path]
        Fail(world, ops) ==
            [w |-> world,
             out |-> Outcome(id, FALSE, dry, fault, ops, current_version, current_version)]
    IN  IF Malformed(proposal)
        THEN [w |-> w, out |-> Outcome(id, FALSE, dry, "raised", <<>>,
                                       <<0, 0, 0>>, <<0, 0, 0>>)]
        ELSE IF dry THEN [w |-> w, out |-> Outcome(id, TRUE, dry, "none", <<>>,
                                                   current_version, current_version)]
        ELSE IF bk.raised THEN Fail(w, <<>>)
        ELSE IF fault = "version"
        THEN Fail([w EXCEPT !.docs = docs4, !.backups = bk.backups], changed.outcomes)
        ELSE IF fault = "save"
        THEN Fail([w EXCEPT !.docs = docs5, !.backups = bk.backups], changed.outcomes)
        ELSE IF fault = "log"
        THEN Fail([w EXCEPT !.docs = docs5, !.backups = bk.backups,
                            !.proposals = save_proposal(w.proposals, id, stored),
                            !.pre = WriteFile(w.pre, id, ReadFile(w.docs, skill))],
                  changed.outcomes)
        ELSE [w |-> [docs |-> docs5,
                     backups |-> bk.backups,
                     proposals |-> save_proposal(w.proposals, id, stored),
                     log |-> log_evolution(w.log, skill, current_version, new_version,
                                           level, proposal.title, t),
                     pre |-> WriteFile(w.pre, id, ReadFile(w.docs, skill))],
              out |-> Outcome(id, TRUE, dry, fault, changed.outcomes,
                              current_version, new_version)]

\* rollback_proposal without the check that the status is applied
rollback_proposal_any_status(w, id, t) ==
    IF id \notin DOMAIN w.proposals THEN [w |-> w, ok |-> FALSE]
    ELSE LET proposal == w.proposals[id]
         IN  IF proposal.backup_path = NoPath THEN [w |-> w, ok |-> FALSE]
             ELSE IF proposal.backup_path \notin DOMAIN w.backups THEN [w |-> w, ok |-> FALSE]
             ELSE [w |-> [w EXCEPT
                             !.docs = restore_skill(w.docs, w.backups, proposal.skill_id,
                                                    proposal.backup_path),
                             !.proposals = save_proposal(w.proposals, id,
                                              [proposal EXCEPT !.status = "rolled_back",
                                                               !.rolled_back_at = Timestamp(t)])],
                   ok |-> TRUE]

\* rollback_proposal putting the record back to pending, its snapshot path kept
rollback_proposal_reopening(w, id, t) ==
    IF id \notin DOMAIN w.proposals THEN [w |-> w, ok |-> FALSE]
    ELSE LET proposal == w.proposals[id]
         IN  IF proposal.status # "applied" THEN [w |-> w, ok |-> FALSE]
             ELSE IF proposal.backup_path = NoPath THEN [w |-> w, ok |-> FALSE]
             ELSE IF proposal.backup_path \notin DOMAIN w.backups THEN [w |-> w, ok |-> FALSE]
             ELSE [w |-> [w EXCEPT
                             !.docs = restore_skill(w.docs, w.backups, proposal.skill_id,
                                                    proposal.backup_path),
                             !.proposals = save_proposal(w.proposals, id,
                                              [proposal EXCEPT !.status = "pending",
                                                               !.rolled_back_at = Timestamp(t)])],
                   ok |-> TRUE]

\* rollback_proposal
rollback_proposal(w, id, t) ==
    IF id \notin DOMAIN w.proposals THEN [w |-> w, ok |-> FALSE]
    ELSE LET proposal == w.proposals[id]
         IN  IF proposal.status # "applied" THEN [w |-> w, ok |-> FALSE]
             ELSE IF proposal.backup_path = NoPath THEN [w |-> w, ok |-> FALSE]
             ELSE IF proposal.backup_path \notin DOMAIN w.backups THEN [w |-> w, ok |-> FALSE]
             ELSE [w |-> [w EXCEPT
                             !.docs = restore_skill(w.docs, w.backups, proposal.skill_id,
                                                    proposal.backup_path),
                             !.proposals = save_proposal(w.proposals, id,
                                              [proposal EXCEPT !.status = "rolled_back",
                                                               !.rolled_back_at = Timestamp(t)])],
                   ok |-> TRUE]

----------------------------------------------------------------------------
\* The skills, their documents and the stored proposals the runs start from.

Skills == {"s1", "s2"}
Levels == {"patch", "minor", "major"}

\* a document with the header block of the skill document contract and a changelog
DocVersioned ==
    <<Delim, VersionLine(<<1, 0, 0>>), UpdatedLine(0), Delim, Text(1), ChangelogHeader>>
\* a document without evolution metadata (no version field)
DocUnversioned == <<Delim, Text(0), Delim, Text(1)>>
DocOther == <<Delim, VersionLine(<<2, 0, 0>>), Delim, Text(1)>>

Edit(before, after) ==
    [type |-> "edit", section |-> "", before |-> before, after |-> after, add |-> <<>>]
Add(section, after, before, add) ==
    [type |-> "add", section |-> section, before |-> before, after |-> after, add |-> add]
Review == [type |-> "review", section |-> "", before |-> <<>>, after |-> <<>>, add |-> <<>>]

\* a record as create_proposal builds it
NewProposal(skill, level, title, changes) ==
    [skill_id |-> skill, change_level |-> level, status |-> "pending", title |-> title,
     changes |-> changes, backup_path |-> NoPath, applied_at |-> NoTime,
     rolled_back_at |-> NoTime]

ProposalIds == {"p1", "p2", "p3", "p4"}
UnknownId == "p0"

InitialStore ==
    [id \in ProposalIds |->
        CASE id = "p1" -> NewProposal("s1", "patch", 1, <<Edit(<<Text(1)>>, <<Text(2)>>)>>)
          [] id = "p2" -> NewProposal("s1", "patch", 2, <<Edit(<<Text(9)>>, <<Text(2)>>)>>)
          [] id = "p3" -> NewProposal("s1", "minor", 3, <<Add("", <<>>, <<>>, <<Text(3)>>)>>)
          [] OTHER -> NewProposal("s2", "major", 4, <<Review>>)]

Files == [docs |-> docs, backups |-> backups, proposals |-> proposals, log |-> log,
          pre |-> pre]

Init ==
    /\ \E d1 \in {DocVersioned, DocUnversioned} :
       \E present \in BOOLEAN :
          docs = IF present THEN [s \in Skills |-> IF s = "s1" THEN d1 ELSE DocOther]
                 ELSE [s \in {"s1"} |-> d1]
    /\ backups = <<>>
    /\ proposals = InitialStore
    /\ log = <<>>
    /\ pre = <<>>
    /\ now = 1
    /\ nops = 0
    /\ result = [cmd |-> "none", id |-> "", confirm |-> FALSE, outs |-> <<>>, before |-> <<>>]
    /\ reports = <<>>
    /\ input = <<>>
    /\ output = <<>>
    /\ procs = <<>>

----------------------------------------------------------------------------
\* main(): one action per command-line mode.

Commit(w, cmd, id, confirm, outs) ==
    /\ docs' = w.docs
    /\ backups' = w.backups
    /\ proposals' = w.proposals
    /\ log' = w.log
    /\ pre' = w.pre
    /\ nops' = nops + 1
    /\ result' = [cmd |-> cmd, id |-> id, confirm |-> confirm, outs |-> outs, before |-> docs]
    /\ UNCHANGED <<now, reports, input, output, procs>>

\* the orders in which a directory scan can list the files in S
Orders(S) ==
    {o \in [1..Cardinality(S) -> S] : \A i, j \in 1..Cardinality(S) : o[i] = o[j] => i = j}

\* the loop over to_apply: every proposal as it was listed, the k-th call hitting
\* the fault.  The loop has no try: a call that raises ends the command there,
\* with nothing reported for it nor for the proposals after it.
RECURSIVE ApplyEach(_, _, _, _, _, _, _)
ApplyEach(w, listed, ids, dry, k, fault, t) ==
    IF ids = <<>> THEN [w |-> w, outs |-> <<>>]
    ELSE IF Malformed(listed[Head(ids)]) THEN [w |-> w, outs |-> <<>>]
    ELSE LET r == apply_proposal(w, Head(ids), listed[Head(ids)], dry,
                                 IF k = 1 THEN fault ELSE "none", t)
             rest == ApplyEach(r.w, listed, Tail(ids), dry, k - 1, fault, t)
         IN  [w |-> rest.w, outs |-> <<r.out>> \o rest.outs]

\* p.get('change_level', 'minor')
ChangeLevelOf(proposal) ==
    IF "change_level" \in DOMAIN proposal THEN proposal.change_level ELSE "minor"

\* the (call, fault) pairs of a loop over n proposals
FaultPlans(n) == {<<0, "none">>} \cup ((1..n) \X (Faults \ {"none"}))

\* --rollback ID
RollbackCmd(id) ==
    /\ nops < MaxOps
    /\ LET r == rollback_proposal(Files, id, now)
       IN  Commit(r.w, "rollback", id, FALSE,
                  <<Outcome(id, r.ok, FALSE, "none", <<>>, <<0, 0, 0>>, <<0, 0, 0>>)>>)

\* --proposal ID [--confirm] [--dry-run]
ApplyProposalCmd(id, confirm, dry, fault) ==
    /\ nops < MaxOps
    /\ IF load_proposal(proposals, id) = <<>>
       THEN Commit(Files, "proposal", id, confirm, <<>>)
       ELSE IF Malformed(load_proposal(proposals, id)[1])
       THEN Commit(Files, "proposal", id, confirm, <<>>)
       ELSE LET r == apply_proposal(Files, id, load_proposal(proposals, id)[1], dry, fault, now)
            IN  Commit(r.w, "proposal", id, confirm, <<r.out>>)

\* --level LEVEL [--confirm] [--dry-run]
ApplyLevelCmd(level, confirm, dry, faulty) ==
    /\ nops < MaxOps
    /\ LET pending == list_pending_proposals(proposals)
           to_apply == {id \in pending : ChangeLevelOf(proposals[id]) = level}
       IN  IF pending = {} \/ to_apply = {} \/ (level \in {"major", "minor"} /\ ~confirm)
           THEN Commit(Files, "level", level, confirm, <<>>)
           ELSE \E order \in Orders(to_apply) :
                \E plan \in FaultPlans(IF faulty THEN Cardinality(to_apply) ELSE 0) :
                   LET r == ApplyEach(Files, proposals, order, dry, plan[1], plan[2], now)
                   IN  Commit(r.w, "level", level, confirm, r.outs)

\* --all [--confirm] [--dry-run]
ApplyAllCmd(confirm, dry, faulty) ==
    /\ nops < MaxOps
    /\ LET pending == list_pending_proposals(proposals)
           OfLevel(level) == {id \in pending : ChangeLevelOf(proposals[id]) = level}
       IN  IF pending = {} \/ ~confirm
           THEN Commit(Files, "all", "", confirm, <<>>)
           ELSE \E o1 \in Orders(OfLevel("patch")) :
                \E o2 \in Orders(OfLevel("minor")) :
                \E o3 \in Orders(OfLevel("major")) :
                \E plan \in FaultPlans(IF faulty THEN Cardinality(pending) ELSE 0) :
                   LET r == ApplyEach(Files, proposals, o1 \o o2 \o o3, dry,
                                      plan[1], plan[2], now)
                   IN  Commit(r.w, "all", "", confirm, r.outs)

\* a second passes
Tick ==
    /\ now < MaxClock
    /\ now' = now + 1
    /\ UNCHANGED <<docs, backups, proposals, log, pre, nops, result, reports, input, output, procs>>

\* the runs in which no file access raises
Next ==
    \/ \E id \in ProposalIds \cup {UnknownId} : RollbackCmd(id)
    \/ \E id \in ProposalIds \cup {UnknownId} :
          \E confirm \in BOOLEAN : \E dry \in BOOLEAN :
             ApplyProposalCmd(id, confirm, dry, "none")
    \/ \E level \in Levels : \E confirm \in BOOLEAN : \E dry \in BOOLEAN :
          ApplyLevelCmd(level, confirm, dry, FALSE)
    \/ \E confirm \in BOOLEAN : \E dry \in BOOLEAN : ApplyAllCmd(confirm, dry, FALSE)
    \/ Tick

Spec == Init /\ [][Next]_vars

\* the runs in which a file access of an apply may raise
FaultyNext ==
    \/ \E id \in ProposalIds : nops < MaxFaultyOps /\ RollbackCmd(id)
    \/ \E id \in ProposalIds : \E fault \in Faults :
          nops < MaxFaultyOps /\ ApplyProposalCmd(id, TRUE, FALSE, fault)
    \/ \E level \in Levels : nops < MaxFaultyOps /\ ApplyLevelCmd(level, TRUE, FALSE, TRUE)
    \/ nops < MaxFaultyOps /\ ApplyAllCmd(TRUE, FALSE, TRUE)
    \/ Tick

FaultySpec == Init /\ [][FaultyNext]_vars

----------------------------------------------------------------------------
\* What a step did.

\* this step ran a command-line invocation
Ran(cmd) == nops' = nops + 1 /\ result'.cmd = cmd

\* this step ran apply_proposal for real (no --dry-run) on some proposals
RanApply ==
    /\ nops' = nops + 1
    /\ result'.cmd \in {"proposal", "level", "all"}

\* the files a command may touch
FilesUnchanged == UNCHANGED <<docs, backups, proposals, log>>

\* the snapshot files of a skill, and its audit events
SnapshotsOf(b, skill) == {path \in DOMAIN b : path[1] = skill}
EventsOf(events, skill) == SelectSeq(events, LAMBDA e : e.skill = skill)

----------------------------------------------------------------------------
\* C1: the persisted status of a proposal changes only along
\* pending -> {approved, rejected, expired}, approved -> applied and
\* applied -> rolled_back; every other requested transition leaves the status
\* what it was.
AllowedTransition(from, to) ==
    \/ from = "pending" /\ to \in {"approved", "rejected", "expired"}
    \/ from = "approved" /\ to = "applied"
    \/ from = "applied" /\ to = "rolled_back"

C1_OnlyAllowedTransitions ==
    [][\A id \in DOMAIN proposals :
          /\ id \in DOMAIN proposals'
          /\ \/ proposals'[id].status = proposals[id].status
             \/ AllowedTransition(proposals[id].status, proposals'[id].status)]_vars

\* C2: applying a proposal whose persisted status is already applied is
\* rejected and changes neither the document, the snapshots, the proposal
\* record nor the audit log.
C2_DoubleApplyRejected ==
    [][\A id \in DOMAIN proposals :
          (/\ Ran("proposal")
           /\ result'.id = id
           /\ ~result'.outs[1].dry
           /\ proposals[id].status = "applied")
          => (~result'.outs[1].ok /\ FilesUnchanged)]_vars

\* C3: rollback_proposal succeeds only on a stored proposal in status applied
\* whose backup_path is set and names an existing snapshot, and then stores
\* rolled_back with rolled_back_at; in every other case it fails and leaves the
\* documents, the proposals, the snapshots and the audit log as they were.
RollbackLegal(id) ==
    /\ id \in DOMAIN proposals
    /\ proposals[id].status = "applied"
    /\ proposals[id].backup_path # NoPath
    /\ proposals[id].backup_path \in DOMAIN backups

C4_ApplyRollbackRoundTrip ==
    [][(/\ result.cmd = "proposal"
        /\ Len(result.outs) = 1
        /\ ~result.outs[1].dry
        /\ Ran("rollback")
        /\ result'.id = result.id)
       => docs' = result.before]_vars

\* a rollback has put back the document its proposal's apply started from,
\* undoing an edit, a version bump and a new update date
C4_Witness ==
    /\ result.cmd = "rollback"
    /\ result.outs[1].ok
    /\ LET skill == proposals[result.id].skill_id
       IN  /\ docs[skill] = pre[result.id]
           /\ result.before[skill] # docs[skill]
           /\ Contains(result.before[skill], <<Text(2)>>)
           /\ Contains(docs[skill], <<UpdatedLine(0)>>)
           /\ ~Contains(result.before[skill], <<UpdatedLine(0)>>)
           /\ get_skill_version(result.before, skill) # get_skill_version(docs, skill)

\* C5: every proposal in status applied has a backup_path that names an
\* existing snapshot holding the document as it was just before that apply
\* changed anything.
C5_AppliedHasPreApplySnapshot ==
    \A id \in DOMAIN proposals :
        proposals[id].status = "applied" =>
            /\ proposals[id].backup_path # NoPath
            /\ proposals[id].backup_path \in DOMAIN backups
            /\ backups[proposals[id].backup_path] = pre[id]

\* C6: a snapshot file once written is never deleted and never changes.
C6_SnapshotsNeverOverwritten ==
    [][\A path \in DOMAIN backups :
          path \in DOMAIN backups' /\ backups'[path] = backups[path]]_vars

\* C7: the version embedded in a skill's document never decreases from one
\* state to the next, over applies and rollbacks.
C7_VersionNeverDecreases ==
    [][\A skill \in DOMAIN docs :
          ~VersionLess(get_skill_version(docs', skill), get_skill_version(docs, skill))]_vars

\* C7 as amended: the embedded version never decreases across an apply, and a
\* successful rollback sets it to the version of the snapshot it restores.
C7_VersionNeverDecreasesAcrossApply ==
    [][/\ RanApply =>
            \A skill \in DOMAIN docs :
                \A after \in {get_skill_version(docs', skill)} :
                \A before \in {get_skill_version(docs, skill)} :
                    ~VersionLess(after, before)
       /\ (Ran("rollback") /\ result'.outs[1].ok) =>
            get_skill_version(docs', proposals[result'.id].skill_id)
                = get_skill_version(backups, proposals[result'.id].backup_path)]_vars

\* a rollback has lowered the embedded version to the snapshot's
C7_Witness ==
    /\ result.cmd = "rollback"
    /\ result.outs[1].ok
    /\ LET skill == proposals[result.id].skill_id
       IN  /\ VersionLess(get_skill_version(docs, skill),
                          get_skill_version(result.before, skill))
           /\ get_skill_version(docs, skill)
                = get_skill_version(backups, proposals[result.id].backup_path)

\* C8: an apply that returns failure has not changed the stored status of its
\* proposal: the status becomes applied only when every step, the audit
\* append included, completed without raising.
C8_FailedApplyKeepsStatus ==
    [][RanApply =>
          \A i \in 1..Len(result'.outs) :
              ~result'.outs[i].ok =>
                  proposals'[result'.outs[i].id].status
                      = proposals[result'.outs[i].id].status]_vars

\* C9: apply on a proposal whose skill document is absent fails and changes
\* nothing: no document appears, no snapshot is written, the record is as it
\* was and the skill gets no audit event.
C9_AbsentDocumentNoMutation ==
    [][RanApply =>
          \A i \in 1..Len(result'.outs) :
              LET id == result'.outs[i].id
                  skill == proposals[id].skill_id
              IN  (~result'.outs[i].dry /\ skill \notin DOMAIN docs) =>
                      /\ ~result'.outs[i].ok
                      /\ skill \notin DOMAIN docs'
                      /\ SnapshotsOf(backups', skill) = SnapshotsOf(backups, skill)
                      /\ proposals'[id] = proposals[id]
                      /\ EventsOf(log', skill) = EventsOf(log, skill)]_vars

\* an apply on an absent document has failed, next to an apply on a present
\* one that went through in the same run
C9_Witness ==
    /\ result.cmd = "all"
    /\ \E i \in 1..Len(result.outs) :
          LET id == result.outs[i].id
          IN  /\ ~result.outs[i].dry
              /\ ~result.outs[i].ok
              /\ proposals[id].skill_id \notin DOMAIN docs
              /\ proposals[id].status = "pending"
              /\ proposals[id].backup_path = NoPath
              /\ proposals[id].applied_at = NoTime
    /\ \E i \in 1..Len(result.outs) : result.outs[i].ok
    /\ log # <<>>

\* C10: applying a proposal whose only operation is an edit whose before text
\* is not in the document reports the operation failed, bumps the document's
\* version by the tier, stores the proposal as applied with its backup_path and
\* appends the audit event.
SoleAbsentEdit(id) ==
    LET changes == proposals[id].changes
    IN  /\ Len(changes) = 1
        /\ changes[1].type = "edit"
        /\ changes[1].before # <<>>
        /\ changes[1].after # <<>>
        /\ proposals[id].skill_id \in DOMAIN docs
        /\ ~Contains(docs[proposals[id].skill_id], changes[1].before)

C10_FailedEditStillApplies ==
    [][\A id \in DOMAIN proposals :
          (/\ Ran("proposal")
           /\ result'.id = id
           /\ ~result'.outs[1].dry
           /\ SoleAbsentEdit(id))
          => LET skill == proposals[id].skill_id
                 level == proposals[id].change_level
                 bumped == increment_version(get_skill_version(docs, skill), level)
             IN  /\ result'.outs[1].ops = <<"failed">>
                 /\ result'.outs[1].ok
                 /\ get_skill_version(docs', skill) = bumped
                 /\ proposals'[id].status = "applied"
                 /\ proposals'[id].backup_path \in DOMAIN backups'
                 /\ Len(log') = Len(log) + 1
                 /\ log'[Len(log')].skill = skill
                 /\ log'[Len(log')].version_after = bumped]_vars

----------------------------------------------------------------------------
\* increment_version on version strings.
\* A version string is the sequence of the parts between its dots; a part is
\* the digits of a number or some other text (which int() rejects).
MaxParts == 4
MaxPart == 1

Numeric(n) == <<"digits", n>>
NonNumeric == <<"text", 0>>
IsNumeric(part) == part[1] = "digits"
Parts == {Numeric(n) : n \in 0..MaxPart} \cup {NonNumeric}
VersionStrings == UNION {[1..n -> Parts] : n \in 1..MaxParts}

\* split('.'), the length test, the three int() calls, then the tier's rule
increment_version_text(version, level) ==
    LET parts == IF Len(version) # 3 THEN <<Numeric(1), Numeric(0), Numeric(0)>> ELSE version
    IN  IF \E i \in 1..3 : ~IsNumeric(parts[i])
        THEN [raised |-> TRUE, version |-> <<>>]
        ELSE [raised |-> FALSE,
              version |-> increment_version(<<parts[1][2], parts[2][2], parts[3][2]>>, level)]

\* no files, no commands: the state of a specification that exercises one function
NoFiles ==
    /\ docs = <<>> /\ backups = <<>> /\ proposals = <<>> /\ log = <<>> /\ pre = <<>>
    /\ reports = <<>> /\ now = 1 /\ nops = 0 /\ procs = <<>>
    /\ result = [cmd |-> "none", id |-> "", confirm |-> FALSE, outs |-> <<>>, before |-> <<>>]

Returns(value) ==
    /\ output = <<>>
    /\ output' = <<value>>
    /\ UNCHANGED <<docs, backups, proposals, log, now, nops, result, pre, reports, input, procs>>

VersionInit ==
    /\ NoFiles
    /\ input \in [version : VersionStrings, level : Levels]
    /\ output = <<>>

IncrementVersion == Returns(increment_version_text(input.version, input.level))

VersionSpec == VersionInit /\ [][IncrementVersion]_vars

\* C11: for every version string and tier increment_version returns, without
\* raising, the tier's successor (patch: M.m.p+1, minor: M.m+1.0, major: M+1.0.0)
\* of the version when it is three numeric parts and of the baseline 1.0.0 when
\* it is anything else.
Parseable(version) == Len(version) = 3 /\ \A i \in 1..3 : IsNumeric(version[i])

TierRule(v, level) ==
    CASE level = "patch" -> <<v[1], v[2], v[3] + 1>>
      [] level = "minor" -> <<v[1], v[2] + 1, 0>>
      [] level = "major" -> <<v[1] + 1, 0, 0>>

C11_IncrementVersionTotal ==
    output # <<>> =>
        LET v == input.version
            from == IF Parseable(v) THEN <<v[1][2], v[2][2], v[3][2]>> ELSE <<1, 0, 0>>
        IN  /\ ~output[1].raised
            /\ output[1].version = TierRule(from, input.level)

----------------------------------------------------------------------------
\* C12: an invocation without --confirm never moves a minor or major proposal
\* to status applied, whichever entry point it uses (--level, --all,
\* --proposal); and --level patch without --confirm does apply the pending
\* patch proposals.
Gated(id) == proposals[id].change_level \in {"minor", "major"}

NewlyApplied(id) == proposals[id].status # "applied" /\ proposals'[id].status = "applied"

C12_NoUnconfirmedApplyAbovePatch ==
    [][(nops' = nops + 1 /\ ~result'.confirm) =>
          /\ \A id \in DOMAIN proposals : Gated(id) => ~NewlyApplied(id)
          /\ (result'.cmd = "level" /\ result'.id = "patch") =>
                {result'.outs[i].id : i \in 1..Len(result'.outs)}
                    = {id \in list_pending_proposals(proposals) :
                          proposals[id].change_level = "patch"}]_vars

----------------------------------------------------------------------------
\* C14: every command appends to the audit log exactly one event per apply
\* that succeeded for real, in the order of the applies, and nothing else: the
\* event names the proposal's skill and tier, the version parsed from the
\* document the apply started from and that version's successor for the tier;
\* failed applies, dry runs and rollbacks append none, and the events already
\* in the log stay as they were.
Applied(outs) == SelectSeq(outs, LAMBDA o : o.ok /\ ~o.dry)

C14_OneAuditEventPerApply ==
    [][nops' = nops + 1 =>
          LET done == IF result'.cmd = "rollback" THEN <<>> ELSE Applied(result'.outs)
          IN  /\ Len(log') = Len(log) + Len(done)
              /\ SubSeq(log', 1, Len(log)) = log
              /\ \A i \in 1..Len(done) :
                    LET e == log'[Len(log) + i]
                        p == proposals[done[i].id]
                    IN  /\ e.skill = p.skill_id
                        /\ e.change_level = p.change_level
                        /\ e.version_before = get_skill_version(pre', done[i].id)
                        /\ e.version_after = increment_version(e.version_before, p.change_level)]_vars

\* an apply has succeeded on top of a log that already held an event
C14_Witness ==
    /\ result.cmd \in {"proposal", "level", "all"}
    /\ Applied(result.outs) # <<>>
    /\ Len(log) > Len(Applied(result.outs))

----------------------------------------------------------------------------
\* The opportunity analyzer (scripts/analyze-opportunities.py).

\* Lines the analyzer looks for: the description and evolution keys of the
\* frontmatter, the headers of the required sections (1: Out of Scope,
\* 2: Verification, 3: Integrations), and a frontmatter that is one bare number.
DescriptionLine == <<"description", 0, 0, 0>>
EvolutionLine == <<"evolution", 0, 0, 0>>
ScalarLine == <<"scalar", 42, 0, 0>>
SectionLine(n) == <<"## section", n, 0, 0>>
RequiredSections == <<1, 2, 3>>

\* what yaml.safe_load makes of the frontmatter: a mapping with its keys, or
\* (for the one bare number) a value that is no container
parse_skill_frontmatter(content) ==
    IF FrontmatterEnds(content) = {} THEN [mapping |-> TRUE, keys |-> {}]
    ELSE LET frontmatter == SubSeq(content, 2, SetMin(FrontmatterEnds(content)) - 1)
         IN  IF frontmatter = <<ScalarLine>>
             THEN [mapping |-> FALSE, keys |-> {}]
             ELSE [mapping |-> TRUE,
                   keys |-> {frontmatter[i][1] : i \in 1..Len(frontmatter)} \ {"scalar"}]

\* a SkillMetrics as the dataclass constructs it
SkillMetrics(skill) ==
    [skill_name |-> skill, invocation_count |-> 0, success_count |-> 0,
     failure_count |-> 0, skip_count |-> 0]

\* SkillMetrics.success_rate, as the exact fraction <<numerator, denominator>>
success_rate(m) ==
    IF m.invocation_count = 0 THEN <<0, 1>>
    ELSE <<m.success_count * 100, m.invocation_count>>

\* rate < n for a fraction and a whole number
RateBelow(rate, n) == rate[1] < n * rate[2]

\* the effect of one log record on one skill's metrics
CountRecord(m, entry) ==
    IF entry.skill # m.skill_name THEN m
    ELSE IF entry.action = "invoked"
    THEN IF entry.result = "success"
         THEN [m EXCEPT !.invocation_count = @ + 1, !.success_count = @ + 1]
         ELSE [m EXCEPT !.invocation_count = @ + 1, !.failure_count = @ + 1]
    ELSE IF entry.action = "skipped" THEN [m EXCEPT !.skip_count = @ + 1]
    ELSE m

\* analyze_usage_patterns: the metrics of the skills, in the order of the list
RECURSIVE analyze_usage_patterns(_, _)
analyze_usage_patterns(logs, skills) ==
    IF logs = <<>> THEN [i \in 1..Len(skills) |-> SkillMetrics(skills[i])]
    ELSE LET metrics == analyze_usage_patterns(SubSeq(logs, 1, Len(logs) - 1), skills)
         IN  [i \in 1..Len(skills) |-> CountRecord(metrics[i], logs[Len(logs)])]

Opportunity(skill, type, level, reason) ==
    [skill |-> skill, type |-> type, level |-> level, reason |-> reason]

\* one opportunity for every metrics m that passes the test, in order
ForEachMetrics(metrics, Test(_), Found(_)) ==
    LET hits == SelectSeq(metrics, Test)
    IN  [i \in 1..Len(hits) |-> Found(hits[i])]

identify_trigger_opportunities(metrics) ==
    ForEachMetrics(metrics,
        LAMBDA m : m.skip_count > 3,
        LAMBDA m : Opportunity(m.skill_name, "trigger_improvement", "patch",
                               <<"skipped", m.skip_count, 0>>))

\* identify_error_patterns taking a success rate of exactly 70 for a low one
identify_error_patterns_inclusive(metrics) ==
    ForEachMetrics(metrics,
        LAMBDA m : m.invocation_count >= 5
                   /\ success_rate(m)[1] <= 70 * success_rate(m)[2],
        LAMBDA m : Opportunity(m.skill_name, "error_fix", "minor",
                               <<"success rate", m.success_count, m.invocation_count>>))

identify_error_patterns(metrics) ==
    ForEachMetrics(metrics,
        LAMBDA m : m.invocation_count >= 5 /\ RateBelow(success_rate(m), 70),
        LAMBDA m : Opportunity(m.skill_name, "error_fix", "minor",
                               <<"success rate", m.success_count, m.invocation_count>>))

\* identify_unused_skills testing for no success instead of no invocation
identify_unused_skills_no_success(metrics, days) ==
    ForEachMetrics(metrics,
        LAMBDA m : m.success_count = 0,
        LAMBDA m : Opportunity(m.skill_name, "unused", "major", <<"unused", days, 0>>))

identify_unused_skills(metrics, days) ==
    ForEachMetrics(metrics,
        LAMBDA m : m.invocation_count = 0,
        LAMBDA m : Opportunity(m.skill_name, "unused", "major", <<"unused", days, 0>>))

\* the missing_section findings for the required sections from the k-th on
RECURSIVE MissingSections(_, _, _)
MissingSections(content, skill, k) ==
    IF k > Len(RequiredSections) THEN <<>>
    ELSE (IF ~Contains(content, <<SectionLine(RequiredSections[k])>>)
          THEN <<Opportunity(skill, "missing_section", "minor",
                             <<"missing section", RequiredSections[k], 0>>)>>
          ELSE <<>>)
         \o MissingSections(content, skill, k + 1)

\* analyze_skill_content: the findings, or raised when the frontmatter is no container
analyze_skill_content(d, skill) ==
    IF ReadFile(d, skill) = <<>> THEN [raised |-> FALSE, opportunities |-> <<>>]
    ELSE LET content == d[skill]
             frontmatter == parse_skill_frontmatter(content)
         IN  IF ~frontmatter.mapping THEN [raised |-> TRUE, opportunities |-> <<>>]
             ELSE [raised |-> FALSE,
                   opportunities |->
                       (IF "description" \notin frontmatter.keys
                        THEN <<Opportunity(skill, "missing_description", "patch",
                                           <<"missing description", 0, 0>>)>>
                        ELSE <<>>)
                       \o (IF "evolution" \notin frontmatter.keys
                           THEN <<Opportunity(skill, "missing_evolution_metadata", "patch",
                                              <<"missing evolution metadata", 0, 0>>)>>
                           ELSE <<>>)
                       \o MissingSections(content, skill, 1)]

----------------------------------------------------------------------------
\* The unused-skill detector on telemetry: analyze_usage_patterns, then
\* identify_unused_skills.
MaxLogs == 3
AnalysisDays == 7

\* the records of the log files: invocations, skips and the applier's audit events
TelemetryRecords ==
    [skill : Skills, action : {"invoked"}, result : {"success", "failure"}]
        \cup [skill : Skills, action : {"skipped", "evolution_applied"}, result : {"success"}]

Telemetry == UNION {[1..n -> TelemetryRecords] : n \in 0..MaxLogs}

UsageInit ==
    /\ NoFiles
    /\ input \in [logs : Telemetry, skills : {<<"s1">>, <<"s1", "s2">>}]
    /\ output = <<>>

FindUnused ==
    Returns(identify_unused_skills(analyze_usage_patterns(input.logs, input.skills),
                                   AnalysisDays))

UsageSpec == UsageInit /\ [][FindUnused]_vars

\* C17: the unused-skill detector returns exactly one opportunity, of type
\* unused and tier major, for each analysed skill that no invoked record of the
\* telemetry names, and none for a skill with at least one invoked record.
Invocations(logs, skill) ==
    {i \in 1..Len(logs) : logs[i].skill = skill /\ logs[i].action = "invoked"}

C17_UnusedIffNoInvocation ==
    output # <<>> =>
        /\ \A i \in 1..Len(output[1]) :
              /\ output[1][i].type = "unused"
              /\ output[1][i].level = "major"
        /\ \A k \in 1..Len(input.skills) :
              Cardinality({i \in 1..Len(output[1]) : output[1][i].skill = input.skills[k]})
                  = IF Invocations(input.logs, input.skills[k]) = {} THEN 1 ELSE 0
        /\ \A i \in 1..Len(output[1]) :
              \E k \in 1..Len(input.skills) : output[1][i].skill = input.skills[k]

\* of two analysed skills one was invoked, with a failure only, and the other
\* was only skipped: the detector reported the second
C17_Witness ==
    /\ output # <<>>
    /\ input.skills = <<"s1", "s2">>
    /\ Invocations(input.logs, "s1") # {}
    /\ \A i \in Invocations(input.logs, "s1") : input.logs[i].result = "failure"
    /\ \E i \in 1..Len(input.logs) :
          input.logs[i].skill = "s2" /\ input.logs[i].action = "skipped"
    /\ Len(output[1]) = 1
    /\ output[1][1].skill = "s2"

----------------------------------------------------------------------------
\* The detectors as main() runs them: the three on the metrics, then the
\* content detector on every skill of the list.  Nothing catches what a
\* detector raises.

\* the loop over the skills from the k-th on
RECURSIVE ContentFindings(_, _, _)
ContentFindings(d, skills, k) ==
    IF k > Len(skills) THEN [raised |-> FALSE, opportunities |-> <<>>]
    ELSE LET found == analyze_skill_content(d, skills[k])
             rest == ContentFindings(d, skills, k + 1)
         IN  IF found.raised THEN [raised |-> TRUE, opportunities |-> <<>>]
             ELSE [raised |-> rest.raised,
                   opportunities |-> IF rest.raised THEN <<>>
                                     ELSE found.opportunities \o rest.opportunities]

Detectors(metrics, skills, d, days) ==
    LET content == ContentFindings(d, skills, 1)
    IN  [raised |-> content.raised,
         opportunities |->
             IF content.raised THEN <<>>
             ELSE identify_trigger_opportunities(metrics)
                  \o identify_error_patterns(metrics)
                  \o identify_unused_skills(metrics, days)
                  \o content.opportunities]

\* a document with the description, the evolution metadata and every required section
DocComplete ==
    <<Delim, DescriptionLine, EvolutionLine, VersionLine(<<1, 0, 0>>), UpdatedLine(0), Delim,
      Text(1), SectionLine(1), SectionLine(2), SectionLine(3), ChangelogHeader>>
\* the same without the Verification section
DocNoVerification ==
    <<Delim, DescriptionLine, EvolutionLine, VersionLine(<<1, 0, 0>>), UpdatedLine(0), Delim,
      Text(1), SectionLine(1), SectionLine(3), ChangelogHeader>>
\* a document whose frontmatter is one bare number
DocScalar == <<Delim, ScalarLine, Delim, Text(1)>>

MaxCount == 10
MaxSkips == 4

\* the metrics analyze_usage_patterns can return for one skill
MetricsOf(skill) ==
    {[skill_name |-> skill, invocation_count |-> n, success_count |-> s,
      failure_count |-> n - s, skip_count |-> k] :
        n \in 0..MaxCount, s \in 0..MaxCount, k \in 0..MaxSkips}

DetectInit ==
    /\ NoFiles
    /\ \E m \in {m \in MetricsOf("s1") : m.failure_count >= 0} :
       \E d \in {DocVersioned, DocUnversioned, DocNoVerification, DocComplete} :
           input = [metrics |-> <<m>>, skills |-> <<"s1">>, docs |-> [s \in {"s1"} |-> d]]
    /\ output = <<>>

Detect == Returns(Detectors(input.metrics, input.skills, input.docs, AnalysisDays))

DetectSpec == DetectInit /\ [][Detect]_vars

\* the findings of one type
OfType(opportunities, type) == SelectSeq(opportunities, LAMBDA o : o.type = type)

\* C18: for every skill's metrics the detectors emit exactly one error_fix
\* opportunity, of tier minor, iff invocation_count >= 5 and
\* 100 * success_count < 70 * invocation_count, and exactly one
\* trigger_improvement opportunity, of tier patch, iff skip_count > 3.
C18_ThresholdDetectors ==
    output # <<>> =>
        LET m == input.metrics[1]
            errors == OfType(output[1].opportunities, "error_fix")
            triggers == OfType(output[1].opportunities, "trigger_improvement")
        IN  /\ Len(errors)
                 = IF m.invocation_count >= 5 /\ 100 * m.success_count < 70 * m.invocation_count
                   THEN 1 ELSE 0
            /\ \A i \in 1..Len(errors) :
                  errors[i].skill = m.skill_name /\ errors[i].level = "minor"
            /\ Len(triggers) = IF m.skip_count > 3 THEN 1 ELSE 0
            /\ \A i \in 1..Len(triggers) :
                  triggers[i].skill = m.skill_name /\ triggers[i].level = "patch"

\* the detectors ran on a skill invoked ten times with seven successes, a rate
\* of exactly 70, and skipped four times: a trigger finding and no error finding
C18_Witness ==
    /\ output # <<>>
    /\ input.metrics[1].invocation_count = 10
    /\ input.metrics[1].success_count = 7
    /\ input.metrics[1].skip_count = 4
    /\ OfType(output[1].opportunities, "error_fix") = <<>>
    /\ Len(OfType(output[1].opportunities, "trigger_improvement")) = 1

\* C19: every opportunity the detectors emit carries the tier of its class:
\* unused is major, error_fix is minor, and missing_description,
\* missing_evolution_metadata and missing_section are patch.
C19_TierByClass ==
    output # <<>> =>
        \A i \in 1..Len(output[1].opportunities) :
            LET o == output[1].opportunities[i]
            IN  /\ o.type = "unused" => o.level = "major"
                /\ o.type = "error_fix" => o.level = "minor"
                /\ o.type \in {"missing_description", "missing_evolution_metadata",
                               "missing_section"} => o.level = "patch"

----------------------------------------------------------------------------
\* The proposal factory.

\* generate_proposal_id: the skill's name and six digits of the hash of the
\* name and the second; two ids are equal when skill and second are
generate_proposal_id(skill, t) == <<skill, Timestamp(t)>>

\* a change as create_proposal writes it: an absent key is the empty text <<>>
Change(type, section, add, note) ==
    [type |-> type, section |-> section, before |-> <<>>, after |-> <<>>,
     add |-> add, note |-> note]

Templated ==
    {"trigger_improvement", "error_fix", "unused", "missing_evolution_metadata",
     "missing_section"}

create_proposal(opportunity, t) ==
    LET skill == opportunity.skill
        opp_type == opportunity.type
        reason == opportunity.reason
        title == CASE opp_type = "trigger_improvement" -> 11
                   [] opp_type = "error_fix" -> 12
                   [] opp_type = "unused" -> 13
                   [] opp_type = "missing_evolution_metadata" -> 14
                   [] opp_type = "missing_section" -> 15
                   [] OTHER -> 16
        changes ==
            CASE opp_type = "trigger_improvement" ->
                    <<Change("review", "frontmatter.description", <<>>,
                             <<"review the trigger coverage", 0, 0>>)>>
              [] opp_type = "error_fix" ->
                    <<Change("review", "workflow", <<>>,
                             <<"review the workflow and error handling", 0, 0>>)>>
              [] opp_type = "unused" ->
                    <<Change("review", "", <<>>, <<"improve, merge or retire", 0, 0>>)>>
              [] opp_type = "missing_evolution_metadata" ->
                    <<Change("edit", "frontmatter", <<EvolutionLine>>, <<>>)>>
              [] opp_type = "missing_section" ->
                    <<Change("edit", "section", <<>>, <<"add section", reason[2], 0>>)>>
              [] OTHER -> <<>>
    IN  NewProposal(skill, opportunity.level, title, changes)
            @@ [proposal_id |-> generate_proposal_id(skill, t),
                created_at |-> Timestamp(t),
                expires_at |-> Timestamp(t + 7 * SecondsPerDay),
                source_trigger |-> opp_type,
                description |-> reason,
                impact |-> <<reason>>]

\* what the detectors, or another producer of opportunities, can hand the factory
ReasonsOf(type) ==
    IF type = "missing_section"
    THEN {<<"missing section", RequiredSections[k], 0>> : k \in 1..Len(RequiredSections)}
    ELSE {<<type, n, 0>> : n \in 0..2}

FactoryInit ==
    /\ NoFiles
    /\ \E skill \in Skills :
       \E type \in Templated \cup {"missing_description", "cognitive_protocol"} :
       \E level \in Levels :
       \E reason \in ReasonsOf(type) :
       \E t \in 1..MaxClock :
           input = [opportunity |-> Opportunity(skill, type, level, reason), t |-> t]
    /\ output = <<>>

Create == Returns(create_proposal(input.opportunity, input.t))

FactorySpec == FactoryInit /\ [][Create]_vars

\* C20: for an opportunity whose type has no template, create_proposal returns
\* a pending proposal whose changes are exactly one review operation that
\* carries the opportunity's reason.
C20_UntemplatedGetsReview ==
    (output # <<>> /\ input.opportunity.type \notin Templated) =>
        /\ output[1].status = "pending"
        /\ Len(output[1].changes) = 1
        /\ output[1].changes[1].type = "review"
        /\ output[1].changes[1].note = input.opportunity.reason

----------------------------------------------------------------------------
\* The analysis run: main() of analyze-opportunities.py, and the pipeline of
\* analysis runs and applies on the proposals they store.

\* get_skill_list: the skills that have a document, sorted by name
get_skill_list(d) == SelectSeq(<<"s1", "s2">>, LAMBDA skill : skill \in DOMAIN d)

\* the loop that stores the created proposals, one file per proposal id
RECURSIVE SaveEach(_, _)
SaveEach(store, created) ==
    IF created = <<>> THEN store
    ELSE SaveEach(save_proposal(store, Head(created).proposal_id, Head(created)),
                  Tail(created))

\* the store after the loop over the created proposals, saving in a dry run too
StoreCreated_always(store, created, dry) == SaveEach(store, created)

\* the store after the loop over the created proposals
StoreCreated(store, created, dry) == IF dry THEN store ELSE SaveEach(store, created)

DaysPerWeek == 7
Week(t) == Today(t) \div DaysPerWeek
ReportFile(t) == <<"weekly", Week(t)>>

generate_report(metrics, opportunities, created, days, t) ==
    [generated |-> Timestamp(t), days |-> days, metrics |-> metrics,
     opportunities |-> opportunities,
     proposals |-> [i \in 1..Len(created) |-> created[i].proposal_id]]

save_report(files, report, t) == WriteFile(files, ReportFile(t), report)

\* analyze-opportunities.py [--skill SKILL] [--report] [--dry-run]
AnalyzeCmd(skill, report, dry) ==
    /\ nops < MaxOps
    /\ LET skills == IF skill # "" THEN <<skill>> ELSE get_skill_list(docs)
           metrics == analyze_usage_patterns(log, skills)
           found == Detectors(metrics, skills, docs, AnalysisDays)
           created == [i \in 1..Len(found.opportunities) |->
                          create_proposal(found.opportunities[i], now)]
           written == generate_report(metrics, found.opportunities, created,
                                      AnalysisDays, now)
       IN  /\ proposals' = IF found.raised THEN proposals
                           ELSE StoreCreated(proposals, created, dry)
           /\ reports' = IF found.raised \/ dry THEN reports
                         ELSE save_report(reports, written, now)
           /\ result' = [cmd |-> "analyze", id |-> skill, confirm |-> FALSE, outs |-> <<>>,
                         before |-> docs, dry |-> dry, raised |-> found.raised,
                         skills |-> skills,
                         opportunities |-> found.opportunities,
                         created |-> IF found.raised THEN <<>> ELSE created,
                         printed |-> ~found.raised /\ report /\ dry]
    /\ nops' = nops + 1
    /\ UNCHANGED <<docs, backups, log, pre, now, input, output, procs>>

Repeat(record, n) == [i \in 1..n |-> record]

\* telemetry of the observation window: none, or five failed invocations and
\* four skips of s1
TelemetrySamples ==
    {<<>>,
     Repeat([skill |-> "s1", action |-> "invoked", result |-> "failure"], 5)
        \o Repeat([skill |-> "s1", action |-> "skipped", result |-> "success"], 4)}

PipelineInit ==
    /\ \E d1 \in {DocUnversioned, DocNoVerification, DocComplete} :
       \E d2 \in {<<>>, DocOther, DocScalar} :
          docs = IF d2 = <<>> THEN [s \in {"s1"} |-> d1]
                 ELSE [s \in Skills |-> IF s = "s1" THEN d1 ELSE d2]
    /\ log \in TelemetrySamples
    /\ backups = <<>>
    /\ proposals = <<>>
    /\ pre = <<>>
    /\ reports = <<>>
    /\ now = 1
    /\ nops = 0
    /\ result = [cmd |-> "none", id |-> "", confirm |-> FALSE, outs |-> <<>>, before |-> <<>>]
    /\ input = <<>>
    /\ output = <<>>
    /\ procs = <<>>

MaxRuns == 2

PipelineNext ==
    \/ \E skill \in {""} \cup Skills : \E report \in BOOLEAN : \E dry \in BOOLEAN :
          nops < MaxRuns /\ AnalyzeCmd(skill, report, dry)
    \/ \E id \in DOMAIN proposals : \E dry \in BOOLEAN :
          nops < MaxRuns /\ ApplyProposalCmd(id, FALSE, dry, "none")
    \/ Tick

PipelineSpec == PipelineInit /\ [][PipelineNext]_vars

----------------------------------------------------------------------------
\* C13: a dry run stores and changes nothing: apply_proposal with dry_run
\* reports success and leaves the document, the snapshots, the proposal record
\* and the audit log as they were, and an analysis run with --dry-run leaves
\* the proposal store and the reports as they were (and every other file).
C13_DryRunChangesNothing ==
    [][nops' = nops + 1 =>
          /\ (result'.cmd = "proposal" /\ result'.outs # <<>> /\ result'.outs[1].dry) =>
                result'.outs[1].ok /\ FilesUnchanged /\ UNCHANGED reports
          /\ (result'.cmd = "analyze" /\ result'.dry) =>
                FilesUnchanged /\ UNCHANGED reports]_vars

\* an analysis run with --dry-run --report has created proposals and printed
\* its report while the store and the reports are still empty
C13_Witness ==
    /\ result.cmd = "analyze"
    /\ result.dry
    /\ result.printed
    /\ Len(result.created) >= 2
    /\ proposals = <<>>
    /\ reports = <<>>

----------------------------------------------------------------------------
\* C15: an analysis run that stores its proposals gives every created
\* proposal an id of its own and a record of its own: the ids of the run are
\* pairwise distinct, the store grows by the number created, and the records
\* it held before are still there as they were.
C15_EveryProposalStored ==
    [][(nops' = nops + 1 /\ result'.cmd = "analyze" /\ ~result'.dry /\ ~result'.raised) =>
          LET created == result'.created
          IN  /\ \A i, j \in 1..Len(created) :
                    created[i].proposal_id = created[j].proposal_id => i = j
              /\ Cardinality(DOMAIN proposals')
                    = Cardinality(DOMAIN proposals) + Len(created)
              /\ \A id \in DOMAIN proposals :
                    id \in DOMAIN proposals' /\ proposals'[id] = proposals[id]]_vars

\* C16: a detector that raises contributes no finding and takes none away:
\* the run goes on, and its findings are those of the metrics detectors and
\* of the content detector on every skill on which it does not raise.
RECURSIVE IsolatedContent(_, _, _)
IsolatedContent(d, skills, k) ==
    IF k > Len(skills) THEN <<>>
    ELSE (IF analyze_skill_content(d, skills[k]).raised THEN <<>>
          ELSE analyze_skill_content(d, skills[k]).opportunities)
         \o IsolatedContent(d, skills, k + 1)

C16_RaisingDetectorIsolated ==
    [][(nops' = nops + 1 /\ result'.cmd = "analyze") =>
          LET metrics == analyze_usage_patterns(log, result'.skills)
          IN  /\ ~result'.raised
              /\ result'.opportunities
                    = identify_trigger_opportunities(metrics)
                      \o identify_error_patterns(metrics)
                      \o identify_unused_skills(metrics, AnalysisDays)
                      \o IsolatedContent(docs, result'.skills, 1)]_vars

----------------------------------------------------------------------------
\* Listing the store: list_pending_proposals reads the files in the order the
\* directory scan yields them, which the file system decides, and keeps the
\* records whose status is pending.
Statuses == {"pending", "approved", "applied", "rejected"}

\* the stores of up to three proposal files, each record with a status and a
\* creation second
ListedStores ==
    UNION {[ids -> [status : Statuses, created_at : 1..MaxClock]] :
              ids \in SUBSET {"p1", "p2", "p3"}}

\* the sequences list_pending_proposals can return for a store
ListPending(store) ==
    {[i \in 1..Len(order) |-> store[order[i]] @@ [proposal_id |-> order[i]]] :
        order \in Orders(list_pending_proposals(store))}

ListInit ==
    /\ docs = <<>> /\ backups = <<>> /\ log = <<>> /\ pre = <<>> /\ reports = <<>>
    /\ now = 1 /\ nops = 0
    /\ result = [cmd |-> "none", id |-> "", confirm |-> FALSE, outs |-> <<>>, before |-> <<>>]
    /\ proposals \in ListedStores
    /\ input = <<>>
    /\ output = <<>>
    /\ procs = <<>>

\* --list, up to twice on the same store
ListCmd ==
    /\ Len(output) < 2
    /\ \E listing \in ListPending(proposals) : output' = Append(output, listing)
    /\ UNCHANGED <<docs, backups, proposals, log, now, nops, result, pre, reports, input, procs>>

ListSpec == ListInit /\ [][ListCmd]_vars

\* C21: a listing holds every stored proposal whose status is not terminal
\* (pending or approved), each exactly once, in ascending order of created_at,
\* and two listings of the same store are the same sequence.
C21_ListingOrderedDeterministic ==
    /\ \A k \in 1..Len(output) :
          LET listing == output[k]
          IN  /\ {listing[i].proposal_id : i \in 1..Len(listing)}
                    = {id \in DOMAIN proposals : proposals[id].status \in {"pending", "approved"}}
              /\ \A i, j \in 1..Len(listing) :
                    /\ listing[i].proposal_id = listing[j].proposal_id => i = j
                    /\ i < j => listing[i].created_at <= listing[j].created_at
    /\ Len(output) = 2 => output[1] = output[2]

----------------------------------------------------------------------------
\* Two apply_proposal calls at the granularity of their file reads and writes.
\* A call reads the version, copies the snapshot, reads and writes the document
\* once per edit or add change, reads and writes it again for the version,
\* writes its record and appends its audit event.  No lock is taken.
Calls == {1, 2}

CallInit(id) ==
    [pc |-> "version", id |-> id, current_version |-> <<0, 0, 0>>, path |-> NoPath,
     content |-> <<>>, k |-> 1]

\* the call is not between its first read and its last write
Outside(p) == procs[p].pc \in {"version", "done", "failed"}

\* a caller that runs the calls one after the other, not serializing at all
MayStep_unserialized(p) == TRUE

\* a caller that runs the calls one after the other lets a call step only
\* while every other call is outside
MayStep(p) == ~input.serialized \/ \A q \in Calls \ {p} : Outside(q)

\* the call's local variables after a step; a step touches nothing of the commands
Local(p, pc, current_version, path, content, k) ==
    /\ procs' = [procs EXCEPT ![p] = [pc |-> pc, id |-> procs[p].id,
                                      current_version |-> current_version,
                                      path |-> path, content |-> content, k |-> k]]
    /\ UNCHANGED <<now, nops, result, pre, reports, input, output>>

GetVersion(p) ==
    LET c == procs[p]
        skill == proposals[c.id].skill_id
    IN  /\ c.pc = "version" /\ MayStep(p)
        /\ Local(p, "backup", get_skill_version(docs, skill), c.path, c.content, c.k)
        /\ UNCHANGED <<docs, backups, proposals, log>>

Backup(p) ==
    LET c == procs[p]
        skill == proposals[c.id].skill_id
        bk == backup_skill(docs, backups, skill, c.current_version, now)
    IN  /\ c.pc = "backup" /\ MayStep(p)
        /\ backups' = bk.backups
        /\ Local(p, IF bk.raised THEN "failed" ELSE "change", c.current_version, bk.path,
                 c.content, c.k)
        /\ UNCHANGED <<docs, proposals, log>>

\* the read of the next edit or add change (a review change reads nothing),
\* or after the last change the read of update_skill_version
ReadDocument(p) ==
    LET c == procs[p]
        proposal == proposals[c.id]
    IN  /\ c.pc = "change" /\ MayStep(p)
        /\ IF c.k > Len(proposal.changes)
           THEN Local(p, "bump", c.current_version, c.path,
                      ReadFile(docs, proposal.skill_id), c.k)
           ELSE IF proposal.changes[c.k].type \in {"edit", "add"}
           THEN Local(p, "write", c.current_version, c.path,
                      ReadFile(docs, proposal.skill_id), c.k)
           ELSE Local(p, "change", c.current_version, c.path, c.content, c.k + 1)
        /\ UNCHANGED <<docs, backups, proposals, log>>

\* the write of an edit or add change, when it found its place in what it read
WriteChange(p) ==
    LET c == procs[p]
        proposal == proposals[c.id]
        r == ApplyChange(c.content, proposal.changes[c.k], FALSE)
    IN  /\ c.pc = "write" /\ MayStep(p)
        /\ docs' = IF r.outcome = "ok" THEN WriteFile(docs, proposal.skill_id, r.content)
                   ELSE docs
        /\ Local(p, "change", c.current_version, c.path, c.content, c.k + 1)
        /\ UNCHANGED <<backups, proposals, log>>

\* the write of update_skill_version
WriteVersion(p) ==
    LET c == procs[p]
        proposal == proposals[c.id]
        skill == proposal.skill_id
        new_version == increment_version(c.current_version, proposal.change_level)
        read == [s \in {skill} |-> c.content]
    IN  /\ c.pc = "bump" /\ MayStep(p)
        /\ docs' = WriteFile(docs, skill,
                       update_skill_version(read, skill, new_version, proposal.title, now)[skill])
        /\ Local(p, "save", c.current_version, c.path, c.content, c.k)
        /\ UNCHANGED <<backups, proposals, log>>

SaveRecord(p) ==
    LET c == procs[p]
        proposal == proposals[c.id]
    IN  /\ c.pc = "save" /\ MayStep(p)
        /\ proposals' = save_proposal(proposals, c.id,
                            [proposal EXCEPT !.status = "applied",
                                             !.applied_at = Timestamp(now),
                                             !.backup_path = c.path])
        /\ Local(p, "log", c.current_version, c.path, c.content, c.k)
        /\ UNCHANGED <<docs, backups, log>>

LogEvent(p) ==
    LET c == procs[p]
        proposal == proposals[c.id]
    IN  /\ c.pc = "log" /\ MayStep(p)
        /\ log' = log_evolution(log, proposal.skill_id, c.current_version,
                                increment_version(c.current_version, proposal.change_level),
                                proposal.change_level, proposal.title, now)
        /\ Local(p, "done", c.current_version, c.path, c.content, c.k)
        /\ UNCHANGED <<docs, backups, proposals>>

ConcurrentInit ==
    /\ \E d \in {DocVersioned, DocUnversioned} :
       \E serialized \in BOOLEAN :
          /\ docs = [s \in {"s1"} |-> d]
          /\ input = [serialized |-> serialized, docs |-> [s \in {"s1"} |-> d]]
    /\ \E a, b \in {"p1", "p2", "p3"} : a # b /\ procs = <<CallInit(a), CallInit(b)>>
    /\ proposals = InitialStore
    /\ backups = <<>> /\ log = <<>> /\ pre = <<>> /\ reports = <<>>
    /\ now = 1 /\ nops = 0
    /\ result = [cmd |-> "none", id |-> "", confirm |-> FALSE, outs |-> <<>>, before |-> <<>>]
    /\ output = <<>>

ConcurrentNext ==
    \/ \E p \in Calls : GetVersion(p)
    \/ \E p \in Calls : Backup(p)
    \/ \E p \in Calls : ReadDocument(p)
    \/ \E p \in Calls : WriteChange(p)
    \/ \E p \in Calls : WriteVersion(p)
    \/ \E p \in Calls : SaveRecord(p)
    \/ \E p \in Calls : LogEvent(p)

ConcurrentSpec == ConcurrentInit /\ [][ConcurrentNext]_vars

\* C22: when the caller runs the two applies on one skill one after the other,
\* they end with the files of one of the two serial orders; without that
\* discipline both can end stored as applied on a document that neither serial
\* order produces (an edit or a version bump of one call is lost).
SerialRun(a, b) ==
    LET w0 == [docs |-> input.docs, backups |-> <<>>, proposals |-> InitialStore,
               log |-> <<>>, pre |-> <<>>]
        first == apply_proposal(w0, a, w0.proposals[a], FALSE, "none", now).w
    IN  apply_proposal(first, b, first.proposals[b], FALSE, "none", now).w

BothDone == \A p \in Calls : procs[p].pc = "done"

MatchesSerial(w) ==
    /\ docs = w.docs
    /\ backups = w.backups
    /\ proposals = w.proposals
    /\ log = w.log

C22_SerializedAppliesMatchSerialOrder ==
    (procs # <<>> /\ input.serialized /\ BothDone) =>
        \/ MatchesSerial(SerialRun(procs[1].id, procs[2].id))
        \/ MatchesSerial(SerialRun(procs[2].id, procs[1].id))

\* two interleaved applies are both stored as applied and the document is that
\* of neither serial order
C22_Witness ==
    /\ procs # <<>>
    /\ ~input.serialized
    /\ BothDone
    /\ \A p \in Calls : proposals[procs[p].id].status = "applied"
    /\ docs # SerialRun(procs[1].id, procs[2].id).docs
    /\ docs # SerialRun(procs[2].id, procs[1].id).docs

----------------------------------------------------------------------------
\* The loop over a proposal's changes as a function of the document and the
\* list of changes: apply_proposal's step 4 on its own.

\* a document without a header block
DocNoHeader == <<Text(1), ChangelogHeader>>

\* the changes the lists are made of: edits and adds that match, that do not,
\* that have an empty field, an add that matches only after the edit, a review
ChangePool ==
    {Edit(<<Text(1)>>, <<Text(2)>>),
     Edit(<<Text(9)>>, <<Text(2)>>),
     Edit(<<>>, <<Text(2)>>),
     Edit(<<Text(1)>>, <<>>),
     Add("", <<>>, <<>>, <<Text(3)>>),
     Add("", <<Text(9)>>, <<>>, <<Text(3)>>),
     Add("", <<>>, <<Text(9)>>, <<Text(3)>>),
     Add("", <<Text(2)>>, <<>>, <<Text(4)>>),
     Add("frontmatter", <<>>, <<>>, <<Text(5)>>),
     Review}

ChangeLists == UNION {[1..n -> ChangePool] : n \in 1..MaxOps}

ChangeInit ==
    /\ NoFiles
    /\ input \in [content : {DocVersioned, DocUnversioned, DocNoHeader},
                  changes : ChangeLists,
                  iofail : BOOLEAN]
    /\ output = <<>>

RunChanges == Returns(ApplyChanges(input.content, input.changes, input.iofail))

ChangeSpec == ChangeInit /\ [][RunChanges]_vars

\* the document the k-th change of the list is executed against: the input
\* after the changes before it, each taken once and in list order
RECURSIVE DocBefore(_)
DocBefore(k) ==
    IF k = 1 THEN input.content
    ELSE ApplyChange(DocBefore(k - 1), input.changes[k - 1], input.iofail).content

\* the text a change puts into the document
Mutation(change) == IF change.type = "edit" THEN change.after ELSE change.add

\* C23: within one apply every change of the proposal is attempted exactly once
\* and in list order, whatever the changes before it reported: the run reports
\* one outcome per change, the k-th outcome is that of the k-th change executed
\* against the document left by the changes before it (a failed one leaves it
\* as it was), the final document is the one the last change left, and the text
\* of the last change that succeeded is in the final document.
C23_EveryChangeAttemptedInOrder ==
    output # <<>> =>
        LET n == Len(input.changes)
            r == output[1]
        IN  /\ Len(r.outcomes) = n
            /\ \A k \in 1..n :
                  r.outcomes[k] =
                      ApplyChange(DocBefore(k), input.changes[k], input.iofail).outcome
            /\ r.content = DocBefore(n + 1)
            /\ \A k \in 1..n :
                  (/\ r.outcomes[k] = "ok"
                   /\ \A j \in (k + 1)..n : r.outcomes[j] # "ok")
                  => Contains(r.content, Mutation(input.changes[k]))

\* a change that succeeded right after one that failed, its text in the final document
C23_Witness ==
    /\ output # <<>>
    /\ \E k \in 1..(Len(output[1].outcomes) - 1) :
          /\ output[1].outcomes[k] = "failed"
          /\ output[1].outcomes[k + 1] = "ok"
          /\ output[1].content # input.content
          /\ Contains(output[1].content, Mutation(input.changes[k + 1]))
          /\ ~Contains(input.content, Mutation(input.changes[k + 1]))

\* the anchor of an add cannot be found in the document
AnchorAbsent(content, change) ==
    IF change.section = "frontmatter" THEN FrontmatterEnds(content) = {}
    ELSE IF change.after # <<>> THEN ~Contains(content, change.after)
    ELSE change.before # <<>> /\ ~Contains(content, change.before)

\* the change is one of the failing cases: an edit with an empty before or
\* after or a before text that is not in the document, an add whose anchor
\* is not in the document
MustFail(content, change) ==
    \/ /\ change.type = "edit"
       /\ \/ change.before = <<>>
          \/ change.after = <<>>
          \/ ~Contains(content, change.before)
    \/ change.type = "add" /\ AnchorAbsent(content, change)

\* C24: a change that fails leaves the document exactly as it was before it,
\* and an edit whose before text is absent or whose before or after is empty,
\* an add whose after- or before-anchor is absent and a frontmatter add on a
\* document without a header block all report failure.
C24_FailedChangeWritesNothing ==
    output # <<>> =>
        \A k \in 1..Len(input.changes) :
            /\ MustFail(DocBefore(k), input.changes[k]) => output[1].outcomes[k] = "failed"
            /\ output[1].outcomes[k] = "failed" => DocBefore(k + 1) = DocBefore(k)

\* every failing case of the claim in one list or another: here an edit whose
\* before text is absent, after a change that did write
C24_Witness ==
    /\ output # <<>>
    /\ ~input.iofail
    /\ \E k \in 2..Len(input.changes) :
          /\ input.changes[k].type = "edit"
          /\ input.changes[k].before # <<>>
          /\ ~Contains(DocBefore(k), input.changes[k].before)
          /\ output[1].outcomes[k] = "failed"
          /\ DocBefore(k) # input.content
          /\ output[1].content = DocBefore(k)

\* C25: after every successful apply the version parsed from the skill document
\* equals the new version the apply reported and wrote to its audit event as
\* version_after, also when the document had no parseable version field before
\* the apply (baseline 1.0.0).
C25_DocumentCarriesReportedVersion ==
    [][\A id \in DOMAIN proposals :
          (/\ Ran("proposal")
           /\ result'.id = id
           /\ result'.outs # <<>>
           /\ result'.outs[1].ok
           /\ ~result'.outs[1].dry)
          => /\ Len(log') = Len(log) + 1
             /\ log'[Len(log')].version_after = result'.outs[1].version_after
             /\ get_skill_version(docs', proposals[id].skill_id)
                    = result'.outs[1].version_after]_vars

----------------------------------------------------------------------------
\* Batch runs on a store that holds a record lacking a field apply_proposal
\* reads without a default.

Without(proposal, field) == [f \in DOMAIN proposal \ {field} |-> proposal[f]]

\* the stores: p2 (patch, listed with p1) without its title, or p3 without its
\* change_level, which main() then classifies as minor
MalformedStores ==
    {[InitialStore EXCEPT !["p2"] = Without(@, "title")],
     [InitialStore EXCEPT !["p3"] = Without(@, "change_level")],
     [InitialStore EXCEPT !["p1"] = [@ EXCEPT !.change_level = "minor"],
                          !["p3"] = Without(@, "change_level")]}

BatchInit ==
    /\ \E d1 \in {DocVersioned, DocUnversioned} :
       \E present \in BOOLEAN :
          docs = IF present THEN [s \in Skills |-> IF s = "s1" THEN d1 ELSE DocOther]
                 ELSE [s \in {"s1"} |-> d1]
    /\ backups = <<>>
    /\ proposals \in MalformedStores
    /\ log = <<>>
    /\ pre = <<>>
    /\ now = 1
    /\ nops = 0
    /\ result = [cmd |-> "none", id |-> "", confirm |-> FALSE, outs |-> <<>>, before |-> <<>>]
    /\ reports = <<>>
    /\ input = <<>>
    /\ output = <<>>
    /\ procs = <<>>

\* the batch commands
BatchNext ==
    \/ \E level \in Levels : \E confirm \in BOOLEAN : \E dry \in BOOLEAN :
          nops < MaxRuns /\ ApplyLevelCmd(level, confirm, dry, FALSE)
    \/ \E confirm \in BOOLEAN : \E dry \in BOOLEAN :
          nops < MaxRuns /\ ApplyAllCmd(confirm, dry, FALSE)

BatchSpec == BatchInit /\ [][BatchNext]_vars

\* the pending proposals a batch run selects
Selected(cmd, level) ==
    {id \in list_pending_proposals(proposals) :
        IF cmd = "level" THEN ChangeLevelOf(proposals[id]) = level
        ELSE ChangeLevelOf(proposals[id]) \in Levels}

\* the batch run got past its confirmation gate
Attempting ==
    /\ nops' = nops + 1
    /\ \/ result'.cmd = "level" /\ (result'.id = "patch" \/ result'.confirm)
       \/ result'.cmd = "all" /\ result'.confirm

\* C26: a batch run (--level, --all) attempts every selected pending proposal:
\* whatever makes one apply fail (a missing document, a record without its
\* change_level or title), the others are attempted too, and the applied count
\* plus the failed count the run reports is the number of selected proposals.
C26_BatchAttemptsEverySelected ==
    [][Attempting =>
          LET selected == Selected(result'.cmd, result'.id)
          IN  /\ Len(result'.outs) = Cardinality(selected)
              /\ \A id \in selected :
                    \E k \in 1..Len(result'.outs) : result'.outs[k].id = id]_vars

\* C27: in every reachable state a stored proposal has a backup_path only if
\* its status is applied or rolled_back: a record in any other status, one
\* whose apply failed included, has backup_path and applied_at unset.
C27_BackupPathOnlyOnceApplied ==
    \A id \in DOMAIN proposals :
        proposals[id].status \notin {"applied", "rolled_back"}
            => /\ proposals[id].backup_path = NoPath
               /\ proposals[id].applied_at = NoTime

\* an apply that failed: its record is still pending and names no snapshot,
\* next to a record that was applied and names one
C27_Witness ==
    /\ \E k \in 1..Len(result.outs) :
          LET id == result.outs[k].id
          IN  /\ result.cmd \in {"proposal", "level", "all"}
              /\ ~result.outs[k].ok
              /\ ~result.outs[k].dry
              /\ proposals[id].status = "pending"
              /\ proposals[id].backup_path = NoPath
    /\ \E id \in DOMAIN proposals :
          /\ proposals[id].status \in {"applied", "rolled_back"}
          /\ proposals[id].backup_path \in DOMAIN backups

\* the version the apply that stored the record as applied wrote: the tier's
\* successor of the version of the document that apply started from
VersionWritten(id) ==
    increment_version(get_skill_version([s \in {proposals[id].skill_id} |-> pre[id]],
                                        proposals[id].skill_id),
                      proposals[id].change_level)

\* C28: in every reachable state every proposal with status applied is still in
\* force: the version in its skill's document is greater than or equal to the
\* version its apply wrote, also after a proposal applied earlier on the same
\* skill has been rolled back.
C28_AppliedStillInForce ==
    \A id \in DOMAIN proposals :
        (proposals[id].status = "applied" /\ id \in DOMAIN pre)
            => LET skill == proposals[id].skill_id
               IN  ~VersionLess(get_skill_version(docs, skill), VersionWritten(id))

\* every record but that of id, and every document but that of id's skill,
\* is after the step what it was before it
OthersUnchanged(id) ==
    /\ DOMAIN proposals' = DOMAIN proposals
    /\ \A other \in DOMAIN proposals \ {id} : proposals'[other] = proposals[other]
    /\ DOMAIN docs' = DOMAIN docs
    /\ \A s \in DOMAIN docs :
          (id \in DOMAIN proposals /\ s = proposals[id].skill_id) \/ docs'[s] = docs[s]

\* C29: apply_proposal(P) and rollback_proposal(P.id) change no proposal record
\* other than P's and no skill document other than that of P's skill; a
\* rollback moreover changes no snapshot and no audit event.
C29_ApplyAndRollbackTouchOnlyTheirOwn ==
    [][/\ Ran("proposal") => OthersUnchanged(result'.id)
       /\ Ran("rollback") => /\ OthersUnchanged(result'.id)
                             /\ backups' = backups
                             /\ log' = log]_vars

\* a rollback has restored its skill's document while a proposal applied on
\* the other skill, its document, the snapshots and the log are as they were
C29_Witness ==
    /\ result.cmd = "rollback"
    /\ result.outs[1].ok
    /\ docs[proposals[result.id].skill_id] # result.before[proposals[result.id].skill_id]
    /\ Len(log) >= 2
    /\ \E other \in DOMAIN proposals \ {result.id} :
          /\ proposals[other].status = "applied"
          /\ proposals[other].skill_id # proposals[result.id].skill_id
          /\ proposals[other].skill_id \in DOMAIN docs
          /\ docs[proposals[other].skill_id] # pre[other]

----------------------------------------------------------------------------
\* One proposal of create_proposal, for each type of opportunity, stored and
\* then applied to the skill's document.

GeneratedInit ==
    /\ \E d \in {DocVersioned, DocUnversioned, DocNoVerification, DocScalar} :
          docs = [s \in {"s1"} |-> d]
    /\ \E type \in Templated \cup {"missing_description", "cognitive_protocol"} :
       \E level \in Levels :
       \E reason \in ReasonsOf(type) :
           input = [opportunity |-> Opportunity("s1", type, level, reason)]
    /\ backups = <<>>
    /\ proposals = <<>>
    /\ log = <<>>
    /\ pre = <<>>
    /\ reports = <<>>
    /\ now = 1
    /\ nops = 0
    /\ result = [cmd |-> "none", id |-> "", confirm |-> FALSE, outs |-> <<>>, before |-> <<>>]
    /\ output = <<>>
    /\ procs = <<>>

\* the analyzer's loop body for the opportunity: create_proposal, save_proposal
SaveGenerated ==
    /\ proposals = <<>>
    /\ LET proposal == create_proposal(input.opportunity, now)
       IN  proposals' = save_proposal(proposals, proposal.proposal_id, proposal)
    /\ UNCHANGED <<docs, backups, log, now, nops, result, pre, reports, input, output, procs>>

GeneratedNext ==
    \/ SaveGenerated
    \/ \E id \in DOMAIN proposals : \E dry \in BOOLEAN :
          nops < MaxRuns /\ ApplyProposalCmd(id, TRUE, dry, "none")
    \/ Tick

GeneratedSpec == GeneratedInit /\ [][GeneratedNext]_vars

\* the document without its version field, its update date and its changelog entries
Body(content) ==
    SelectSeq(content, LAMBDA line : line[1] \notin {"version", "updated", "### v", "- "})

\* C30: applying a proposal that create_proposal produced, whatever the type of
\* its opportunity, never changes the body of the document: each of its
\* operations is a review or an edit without before and after text, reported
\* failed, and the document differs after the apply at most in its version
\* field, its update date and its changelog entry.
C30_GeneratedProposalKeepsBody ==
    [][(/\ Ran("proposal")
        /\ result'.outs # <<>>
        /\ result'.outs[1].ok
        /\ ~result'.outs[1].dry)
       => LET id == result'.id
              skill == proposals[id].skill_id
              changes == proposals[id].changes
          IN  /\ Len(result'.outs[1].ops) = Len(changes)
              /\ \A k \in 1..Len(changes) :
                    \/ changes[k].type = "review" /\ result'.outs[1].ops[k] = "review"
                    \/ /\ changes[k].type = "edit"
                       /\ changes[k].before = <<>>
                       /\ changes[k].after = <<>>
                       /\ result'.outs[1].ops[k] = "failed"
              /\ Body(docs'[skill]) = Body(docs[skill])
              /\ \A s \in DOMAIN docs \ {skill} : docs'[s] = docs[s]]_vars

\* a generated proposal whose edit carries the metadata to add was applied:
\* the edit failed, the version moved and the body is as it was
C30_Witness ==
    /\ result.cmd = "proposal"
    /\ result.outs # <<>>
    /\ result.outs[1].ok
    /\ ~result.outs[1].dry
    /\ result.outs[1].ops = <<"failed">>
    /\ proposals[result.id].source_trigger = "missing_evolution_metadata"
    /\ proposals[result.id].changes[1].add # <<>>
    /\ LET skill == proposals[result.id].skill_id
       IN  /\ docs[skill] # result.before[skill]
           /\ Body(docs[skill]) = Body(result.before[skill])

====
